---- MODULE Spec2Model ----
(***************************************************************************)
(* A model of gridlock (the most complete revision of main.go): the layout *)
(* compiler applyLayout with its helpers findPane, getWorkDirForNode and   *)
(* expandPath, the session driver in main, and the capture path            *)
(* (captureCurrentSession, parseTmuxLayout, splitLayoutChildren).          *)
(*                                                                         *)
(* Strings the code inspects character by character (pane names, paths,    *)
(* geometry strings) are sequences of one-character strings.  Strings the  *)
(* code only passes on (commands typed into panes, window names) are       *)
(* TLA+ strings.                                                           *)
(***************************************************************************)
EXTENDS Integers, Sequences, FiniteSets, TLC

VARIABLES
    flags,          \* the command line: [detached, recreate, dryRun]
    config,         \* the parsed configuration document (Config.Session)
    home,           \* os.UserHomeDir(): a path, or NoHome when it fails
    inTMUX,         \* is the TMUX environment variable non-empty
    liveSession,    \* the multiplexer: does a session of the name exist
    pc,             \* position in main / in the called function
    sessionExists,  \* main's local sessionExists
    winIdx,         \* main's loop variable i, as a 1-based index
    stack,          \* the call stack of applyLayout, innermost frame last
    ret,            \* the value the last applyLayout call returned
    executed,       \* commands run against the live multiplexer, in order
    printed,        \* commands printed as a trace by a dry run, in order
    exit,           \* "running", "ok" (exit 0), "fatal" (log.Fatalf) or "panic"
    args,           \* the subcommand: [init, saveCurrent]
    live,           \* the windows of the live session, as the multiplexer lists them
    windows,        \* captureCurrentSession's local windows
    lineIdx,        \* captureCurrentSession's place in lines, 1-based
    file            \* .gridlock.yaml as written: NoFile until then

\* the state of the capture path
capVars == <<args, live, windows, lineIdx, file>>

\* the state of the session driver and of applyLayout
runVars == <<inTMUX, sessionExists, winIdx, stack, ret>>

vars == <<flags, config, home, inTMUX, liveSession, pc, sessionExists, winIdx,
          stack, ret, executed, printed, exit, args, live, windows, lineIdx, file>>

\* ---------------------------------------------------------------- bounds

MaxNodes == 5

\* trees with empty nodes (no pane name, no children) have at most this many nodes
MaxEmptyNodes == 3

\* a whole run: the windows of a configuration, and the nodes of their layouts together
MaxWindows == 2

MaxRunNodes == 4

\* capture: the nodes of a live window's tree, and of one whose geometry
\* string is also given cut short or with a stray character
MaxCapNodes == 5

MaxBadNodes == 3

\* applyLayout alone: the children of the widest single container
MaxFlat == 8

\* the sizes, in cells, of the pane a container is split out of
MaxSize == 120

\* name matching: the panes a window declares
MaxPanes == 2

\* ------------------------------------------------------- string helpers

Min(a, b) == IF a < b THEN a ELSE b

HasPrefix(s, p) == Len(p) <= Len(s) /\ SubSeq(s, 1, Len(p)) = p

HasSuffix(s, p) == Len(p) <= Len(s) /\ SubSeq(s, Len(s) - Len(p) + 1, Len(s)) = p

\* strings.LastIndex: the 0-based start of the last occurrence, or -1
LastIndex(s, p) ==
    LET at == {i \in 0..(Len(s) - Len(p)) : SubSeq(s, i + 1, i + Len(p)) = p}
    IN  IF at = {} THEN -1 ELSE CHOOSE i \in at : \A j \in at : j <= i

DigitChars == <<"0", "1", "2", "3", "4", "5", "6", "7", "8", "9">>

IsDigit(c) == \E i \in 1..10 : DigitChars[i] = c

DigitVal(c) == (CHOOSE i \in 1..10 : DigitChars[i] = c) - 1

\* fmt.Sprintf("%d", n) for n >= 0
RECURSIVE Itoa(_)
Itoa(n) == IF n < 10 THEN <<DigitChars[n + 1]>>
           ELSE Itoa(n \div 10) \o <<DigitChars[(n % 10) + 1]>>

\* ------------------------------------------------------------ the types

NoChars == << >>

NoFile == "none"

LayoutNode(name, cols, rows) == [PaneName |-> name, Columns |-> cols, Rows |-> rows]

PaneConfig(name, dir, cmd, cmds) ==
    [Name |-> name, WorkingDirectory |-> dir, Command |-> cmd, Commands |-> cmds]

WindowConfig(name, dir, panes, layout) ==
    [Name |-> name, WorkingDirectory |-> dir, Panes |-> panes, Layout |-> layout]

SessionConfig(name, dir, wins) ==
    [Name |-> name, WorkingDirectory |-> dir, Windows |-> wins]

\* ------------------------------------------------------------- findPane

PaneTok == <<"-", "p", "a", "n", "e", "-">>

\* as PaneSuffix, but the whole stored name is compared
PaneSuffix_WholeName(pname) == pname

\* the suffix findPane compares the query with: the stored name from its
\* last "-pane-" on, or the whole stored name
PaneSuffix(pname) ==
    LET idx == LastIndex(pname, PaneTok)
    IN  IF idx # -1 THEN SubSeq(pname, idx + 1, Len(pname)) ELSE pname

PaneMatches(p, name) == p.Name = name \/ HasSuffix(name, PaneSuffix(p.Name))

\* the 1-based index in window.Panes of the pane findPane returns; 0 is nil
findPane(window, name) ==
    LET hits == {i \in 1..Len(window.Panes) : PaneMatches(window.Panes[i], name)}
    IN  IF hits = {} THEN 0 ELSE CHOOSE i \in hits : \A j \in hits : i <= j

\* ----------------------------------------------- expandPath, work dirs

NoHome == <<"!">>

\* filepath.Join(home, rest) for a rest without ".", ".." or doubled slashes
JoinPath(h, rest) == IF rest = NoChars THEN h ELSE h \o <<"/">> \o rest

expandPathIn(h, path) ==
    IF HasPrefix(path, <<"~", "/">>) \/ path = <<"~">>
    THEN IF h = NoHome THEN path
         ELSE IF path = <<"~">> THEN h
         ELSE JoinPath(h, SubSeq(path, 3, Len(path)))
    ELSE path

RECURSIVE getWorkDirIn(_, _, _, _)
getWorkDirIn(h, node, window, sessionWorkDir) ==
    IF node.PaneName # NoChars
    THEN LET p == findPane(window, node.PaneName)
         IN  IF p # 0 /\ window.Panes[p].WorkingDirectory # NoChars
             THEN expandPathIn(h, window.Panes[p].WorkingDirectory)
             ELSE IF window.WorkingDirectory # NoChars
             THEN expandPathIn(h, window.WorkingDirectory)
             ELSE expandPathIn(h, sessionWorkDir)
    ELSE IF Len(node.Columns) > 0
    THEN getWorkDirIn(h, node.Columns[1], window, sessionWorkDir)
    ELSE IF Len(node.Rows) > 0
    THEN getWorkDirIn(h, node.Rows[1], window, sessionWorkDir)
    ELSE expandPathIn(h, sessionWorkDir)

expandPath(path) == expandPathIn(home, path)

getWorkDirForNode(node, window, sessionWorkDir) ==
    getWorkDirIn(home, node, window, sessionWorkDir)

\* ------------------------------------------------------------- TMUX.run

SessionName == "sess"

\* one multiplexer command: its name and the arguments that vary
Cmd(name) == [name |-> name, flag |-> "", pct |-> 0, win |-> "", pane |-> -1,
              dir |-> NoChars, keys |-> "", ok |-> TRUE]

\* TMUX.run on a TMUX whose dryRun field is dry: a dry run prints the command
\* and returns no error; otherwise the command is executed, and ok tells
\* whether the multiplexer accepted it
TmuxRun(dry, c, ok) ==
    IF dry
    THEN /\ printed' = Append(printed, c)
         /\ executed' = executed
    ELSE /\ executed' = Append(executed, [c EXCEPT !.ok = ok])
         /\ printed' = printed

\* the error TMUX.run returns: nil (FALSE) in a dry run
RunErr(dry, ok) == ~dry /\ ~ok

\* --------------------------------------------------------- applyLayout

IsLeaf(node) == node.PaneName # NoChars

IsContainer(node) == ~IsLeaf(node) /\ (Len(node.Columns) > 0 \/ Len(node.Rows) > 0)

\* the children the container branch taken by applyLayout walks
Children(node) == IF Len(node.Columns) > 0 THEN node.Columns ELSE node.Rows

SplitFlag(node) == IF Len(node.Columns) > 0 THEN "-h" ELSE "-v"

\* as Percentage, but the share of one child instead of the share of the
\* children still to come
Percentage_OfOne(n, i) == 100 \div (n - i)

\* lines 287 and 304: Go's integer division of non-negative operands
Percentage(n, i) == (100 * (n - 1 - i)) \div (n - i)

\* mutant of LeafSends: the command list is sent before the single command
LeafSends_CommandsFirst(p) ==
    p.Commands \o (IF p.Command # "" THEN <<p.Command>> ELSE << >>)

\* what a resolved pane gets typed into it, in order
LeafSends(p) ==
    (IF p.Command # "" THEN <<p.Command>> ELSE << >>) \o p.Commands

\* the pane definition a leaf resolves to, as the list of its keys to send
LeafKeys(window, node) ==
    LET p == findPane(window, node.PaneName)
    IN  IF p # 0 THEN LeafSends(window.Panes[p]) ELSE << >>

SendKeysCmd(windowTarget, paneTarget, keys) ==
    [Cmd("send-keys") EXCEPT !.win = windowTarget, !.pane = paneTarget, !.keys = keys]

\* mutant of SplitTarget: every split targets the container's first pane
SplitTarget_First(paneTarget, i) == paneTarget

\* split i of a container called with paneTarget: it targets paneTarget + i
SplitTarget(paneTarget, i) == paneTarget + i

SplitCmd(windowTarget, paneTarget, node, i, window, sessionWorkDir) ==
    LET n == Len(Children(node))
    IN  [Cmd("split-window") EXCEPT
            !.flag = SplitFlag(node),
            !.pct = Percentage(n, i),
            !.win = windowTarget,
            !.pane = SplitTarget(paneTarget, i),
            !.dir = getWorkDirForNode(Children(node)[i + 2], window, sessionWorkDir)]

\* a call of applyLayout: its arguments and its locals
Frame(node, paneTarget) ==
    [node |-> node, paneTarget |-> paneTarget,
     i |-> 0,                    \* the split loop's i
     k |-> 1,                    \* the child loop's position, 1-based
     currentPane |-> paneTarget,
     sent |-> 0]                 \* send-keys already issued by a leaf

Top == stack[Len(stack)]

CurWindow == config.Windows[winIdx]

InLayout == pc = "layout" /\ stack # << >>

\* the value a leaf or an empty node returns
NextAfterLeaf(paneTarget) == paneTarget + 1

\* return val from the innermost call: the caller's child loop stores it in
\* currentPane and moves on; the outermost call's value goes to ret
Return(val) ==
    /\ ret' = val
    /\ stack' = IF Len(stack) = 1 THEN << >>
                ELSE LET d == Len(stack) - 1
                     IN  [SubSeq(stack, 1, d) EXCEPT
                            ![d].currentPane = val, ![d].k = @ + 1]

\* lines 269-280: one send-keys of a resolved leaf
LeafSendKeys ==
    /\ InLayout
    /\ IsLeaf(Top.node)
    /\ Top.sent < Len(LeafKeys(CurWindow, Top.node))
    /\ \E ok \in {TRUE} :
          TmuxRun(flags.dryRun,
                  SendKeysCmd(CurWindow.Name, Top.paneTarget,
                              LeafKeys(CurWindow, Top.node)[Top.sent + 1]), ok)
    /\ stack' = [stack EXCEPT ![Len(stack)].sent = @ + 1]
    /\ UNCHANGED <<capVars, flags, config, home, inTMUX, liveSession, pc, sessionExists, winIdx, ret, exit>>

\* line 281
LeafReturn ==
    /\ InLayout
    /\ IsLeaf(Top.node)
    /\ Top.sent = Len(LeafKeys(CurWindow, Top.node))
    /\ Return(NextAfterLeaf(Top.paneTarget))
    /\ UNCHANGED <<capVars, flags, config, home, inTMUX, liveSession, pc, sessionExists, winIdx,
                   executed, printed, exit>>

\* lines 286-294 and 303-311: one split of a container
ContainerSplit ==
    /\ InLayout
    /\ IsContainer(Top.node)
    /\ Top.i < Len(Children(Top.node)) - 1
    /\ \E ok \in {TRUE} :
          TmuxRun(flags.dryRun,
                  SplitCmd(CurWindow.Name, Top.paneTarget, Top.node, Top.i,
                           CurWindow, config.WorkingDirectory), ok)
    /\ stack' = [stack EXCEPT ![Len(stack)].i = @ + 1]
    /\ UNCHANGED <<capVars, flags, config, home, inTMUX, liveSession, pc, sessionExists, winIdx, ret, exit>>

\* mutant of SplitsDone: the child loop does not wait for the splits
SplitsDone_NoWait(f) == TRUE

\* may the child loop start: the split loop has run to its end
SplitsDone(f) == f.i >= Len(Children(f.node)) - 1

\* lines 296-299 and 313-316: the recursive call for the next child
ContainerRecurse ==
    /\ InLayout
    /\ IsContainer(Top.node)
    /\ SplitsDone(Top)
    /\ Top.k <= Len(Children(Top.node))
    /\ stack' = Append(stack, Frame(Children(Top.node)[Top.k], Top.currentPane))
    /\ UNCHANGED <<capVars, flags, config, home, inTMUX, liveSession, pc, sessionExists, winIdx, ret,
                   executed, printed, exit>>

\* lines 300 and 317
ContainerReturn ==
    /\ InLayout
    /\ IsContainer(Top.node)
    /\ SplitsDone(Top)
    /\ Top.k > Len(Children(Top.node))
    /\ Return(Top.currentPane)
    /\ UNCHANGED <<capVars, flags, config, home, inTMUX, liveSession, pc, sessionExists, winIdx,
                   executed, printed, exit>>

\* line 319: a node with no pane name and no children
EmptyReturn ==
    /\ InLayout
    /\ ~IsLeaf(Top.node)
    /\ ~IsContainer(Top.node)
    /\ Return(NextAfterLeaf(Top.paneTarget))
    /\ UNCHANGED <<capVars, flags, config, home, inTMUX, liveSession, pc, sessionExists, winIdx,
                   executed, printed, exit>>

ApplyLayoutStep ==
    \/ LeafSendKeys
    \/ LeafReturn
    \/ ContainerSplit
    \/ ContainerRecurse
    \/ ContainerReturn
    \/ EmptyReturn

\* ------------------------------------------------------- the inputs

Chars1(c) == <<c>>

HomeDir == <<"/", "h">>

\* the panes every window of the inputs declares
StdPanes == <<
    PaneConfig(Chars1("a"), <<"~", "/", "a">>, "ca", << >>),
    PaneConfig(Chars1("b"), NoChars, "", <<"b1", "b2">>),
    PaneConfig(Chars1("c"), <<"/", "c">>, "cc", <<"c1">>),
    PaneConfig(Chars1("d"), NoChars, "", << >>) >>

\* the names the leaves of an input tree take, by position; z is declared
\* by no pane
LeafNames == <<Chars1("a"), Chars1("b"), Chars1("z"), Chars1("c"), Chars1("d")>>

NameAt(j) == LeafNames[(j % Len(LeafNames)) + 1]

EmptyNode == LayoutNode(NoChars, << >>, << >>)

LeafNode(name) == LayoutNode(name, << >>, << >>)

\* every tree of exactly n nodes, its leaves not yet named; with e, a node
\* without children may also be the empty node
RECURSIVE Shapes(_, _), Forests(_, _)
Forests(n, e) ==
    IF n = 0 THEN {<< >>}
    ELSE UNION { { <<t>> \o f : t \in Shapes(j, e), f \in Forests(n - j, e) } : j \in 1..n }

Shapes(n, e) ==
    IF n = 1 THEN {LeafNode(<<"?">>)} \cup (IF e THEN {EmptyNode} ELSE {})
    ELSE { LayoutNode(NoChars, f, << >>) : f \in Forests(n - 1, e) }
         \cup { LayoutNode(NoChars, << >>, f) : f \in Forests(n - 1, e) }

RECURSIVE NLeaves(_), SumLeaves(_)
SumLeaves(ns) == IF ns = << >> THEN 0 ELSE NLeaves(Head(ns)) + SumLeaves(Tail(ns))

\* the number of pane slots a tree takes: one per leaf or empty node
NLeaves(node) ==
    IF IsLeaf(node) THEN 1
    ELSE IF IsContainer(node) THEN SumLeaves(Children(node))
    ELSE 1

RECURSIVE LeavesOfTree(_), LeavesOfForest(_)
LeavesOfForest(ns) ==
    IF ns = << >> THEN << >> ELSE LeavesOfTree(Head(ns)) \o LeavesOfForest(Tail(ns))

\* the leaves of an input tree, left to right
LeavesOfTree(node) ==
    IF IsLeaf(node) THEN <<node>> ELSE LeavesOfForest(node.Columns \o node.Rows)

RECURSIVE Named(_, _), NamedSeq(_, _)
NamedSeq(ns, j) ==
    IF ns = << >> THEN << >>
    ELSE <<Named(Head(ns), j)>> \o NamedSeq(Tail(ns), j + NLeaves(Head(ns)))

\* the tree with its leaves named NameAt(j), NameAt(j+1), ... left to right
Named(node, j) ==
    IF IsLeaf(node) THEN LeafNode(NameAt(j))
    ELSE IF Len(node.Columns) > 0 THEN LayoutNode(NoChars, NamedSeq(node.Columns, j), << >>)
    ELSE IF Len(node.Rows) > 0 THEN LayoutNode(NoChars, << >>, NamedSeq(node.Rows, j))
    ELSE node

TreeShapes(maxNodes, maxEmpty) ==
    UNION { Shapes(n, FALSE) : n \in 1..maxNodes }
    \cup UNION { Shapes(n, TRUE) : n \in 1..maxEmpty }

\* one container of n leaves, for the n that the trees above do not reach
FlatShapes ==
    UNION { { LayoutNode(NoChars, [x \in 1..n |-> LeafNode(<<"?">>)], << >>),
              LayoutNode(NoChars, << >>, [x \in 1..n |-> LeafNode(<<"?">>)]) } :
            n \in MaxNodes..MaxFlat }

LayoutInputs ==
    { Named(t, j) : t \in TreeShapes(MaxNodes, MaxEmptyNodes) \cup FlatShapes,
                    j \in 0..(Len(LeafNames) - 1) }

DirInputs(d) == {NoChars, d}

\* ---------------------------------------- applyLayout called on its own

InitLayout ==
    /\ flags \in [detached : {FALSE}, recreate : {FALSE}, dryRun : BOOLEAN]
    /\ \E layout \in LayoutInputs, wd \in DirInputs(<<"/", "w">>),
          sd \in DirInputs(<<"~", "/", "s">>) :
          config = SessionConfig(SessionName, sd,
                                 <<WindowConfig("w1", wd, StdPanes, layout)>>)
    /\ home = HomeDir
    /\ inTMUX = FALSE
    /\ liveSession = FALSE
    /\ pc = "layout"
    /\ sessionExists = FALSE
    /\ winIdx = 1
    /\ stack = <<Frame(config.Windows[1].Layout, 0)>>
    /\ ret = -1
    /\ executed = << >>
    /\ printed = << >>
    /\ exit = "running"
    /\ args = [init |-> FALSE, saveCurrent |-> FALSE]
    /\ live = << >>
    /\ windows = << >>
    /\ lineIdx = 0
    /\ file = NoFile

NextLayout == ApplyLayoutStep

SpecLayout == InitLayout /\ [][NextLayout]_vars

\* ------------------------- applyLayout on windows with pane names to match

Win == <<"w", "i", "n">>

Other == <<"o", "t", "h", "e", "r">>

\* the names the panes of these windows are declared with
StoredNames == <<
    Win \o PaneTok \o <<"2">>,
    Other \o PaneTok \o <<"2">>,
    Win \o PaneTok \o <<"2", "0">>,
    <<"b">>,
    <<"a", "b">>,
    <<"a", "-">> \o Win \o PaneTok \o <<"2">> >>

\* the names the leaves of these windows ask for
QueryNames ==
    {StoredNames[i] : i \in 1..Len(StoredNames)}
    \cup {<<"a", "n", "y", "-">> \o Win \o PaneTok \o <<"2">>, <<"z", "z">>}

\* the command that tells the panes apart
KeyOf == <<"k1", "k2", "k3", "k4", "k5", "k6">>

\* every window of at most MaxPanes panes with different names, in any order
PaneSeqs ==
    UNION { { [j \in 1..n |-> PaneConfig(StoredNames[f[j]], NoChars, KeyOf[f[j]], << >>)] :
                f \in { g \in [1..n -> 1..Len(StoredNames)] :
                          \A x, y \in 1..n : x # y => g[x] # g[y] } } :
            n \in 1..MaxPanes }

\* two leaves side by side, or a layout left out
ResolveLayouts ==
    { LayoutNode(NoChars, <<LeafNode(q1), LeafNode(q2)>>, << >>) : q1, q2 \in QueryNames }
    \cup {EmptyNode}

InitResolve ==
    /\ flags \in [detached : {FALSE}, recreate : {FALSE}, dryRun : BOOLEAN]
    /\ \E layout \in ResolveLayouts, panes \in PaneSeqs :
          config = SessionConfig(SessionName, NoChars,
                                 <<WindowConfig("w1", NoChars, panes, layout)>>)
    /\ home = HomeDir
    /\ inTMUX = FALSE
    /\ liveSession = FALSE
    /\ pc = "layout"
    /\ sessionExists = FALSE
    /\ winIdx = 1
    /\ stack = <<Frame(config.Windows[1].Layout, 0)>>
    /\ ret = -1
    /\ executed = << >>
    /\ printed = << >>
    /\ exit = "running"
    /\ args = [init |-> FALSE, saveCurrent |-> FALSE]
    /\ live = << >>
    /\ windows = << >>
    /\ lineIdx = 0
    /\ file = NoFile

SpecResolve == InitResolve /\ [][NextLayout]_vars

\* ------------------------------------------------------------------ main

\* line 205: has-session found the session, and this is no dry run
SessionFound(err, dry) == ~err /\ ~dry

\* mutant of KeepSession: an existing session is never kept
KeepSession_Never(found, recreate) == FALSE

\* mutant of KeepSession: an existing session is kept even with recreate
KeepSession_Always(found, recreate) == found

\* lines 206-211: an existing session is kept unless recreate is requested
KeepSession(found, recreate) == found /\ ~recreate

\* lines 203-212: has-session, answered by the live multiplexer; an existing
\* session is either marked for the kill (recreate) or kept
CheckSession ==
    /\ pc = "check"
    /\ TmuxRun(flags.dryRun, Cmd("has-session"), liveSession)
    /\ LET found == SessionFound(RunErr(flags.dryRun, liveSession), flags.dryRun)
       IN  /\ sessionExists' = KeepSession(found, flags.recreate)
           /\ pc' = IF found /\ flags.recreate THEN "kill" ELSE "create"
    /\ UNCHANGED <<capVars, flags, config, home, inTMUX, liveSession, winIdx, stack, ret, exit>>

\* line 208: kill-session; its result is dropped
KillSession ==
    /\ pc = "kill"
    /\ \E ok \in BOOLEAN :
          /\ TmuxRun(flags.dryRun, Cmd("kill-session"), ok)
          /\ liveSession' = (liveSession /\ ~ok)
    /\ pc' = "create"
    /\ UNCHANGED <<capVars, flags, config, home, inTMUX, sessionExists, winIdx, stack, ret, exit>>

NewSessionCmd ==
    [Cmd("new-session") EXCEPT
        !.dir = IF config.WorkingDirectory # NoChars
                THEN expandPath(config.WorkingDirectory) ELSE NoChars,
        !.win = IF Len(config.Windows) > 0 THEN config.Windows[1].Name ELSE ""]

\* lines 214-224: new-session, refused by the multiplexer when a session of
\* the name is still there; its result is dropped
CreateSession ==
    /\ pc = "create"
    /\ ~sessionExists
    /\ TmuxRun(flags.dryRun, NewSessionCmd, ~liveSession)
    /\ liveSession' = (liveSession \/ ~flags.dryRun)
    /\ winIdx' = 1
    /\ pc' = IF Len(config.Windows) > 0 THEN "window" ELSE "final"
    /\ UNCHANGED <<capVars, flags, config, home, inTMUX, sessionExists, stack, ret, exit>>

\* line 214: nothing is created or configured when the session is kept
ReuseSession ==
    /\ pc = "create"
    /\ sessionExists
    /\ pc' = "final"
    /\ UNCHANGED <<capVars, flags, config, home, inTMUX, liveSession, sessionExists, winIdx, stack,
                   ret, executed, printed, exit>>

NewWindowCmd(window) ==
    [Cmd("new-window") EXCEPT
        !.win = window.Name,
        !.dir = IF window.WorkingDirectory # NoChars
                THEN expandPath(window.WorkingDirectory)
                ELSE IF config.WorkingDirectory # NoChars
                THEN expandPath(config.WorkingDirectory)
                ELSE NoChars]

\* lines 227-240: a window after the first is created by new-window, whose
\* result is dropped; then applyLayout is called on the window's layout
StartWindow ==
    /\ pc = "window"
    /\ IF winIdx > 1
       THEN \E ok \in BOOLEAN : TmuxRun(flags.dryRun, NewWindowCmd(CurWindow), ok)
       ELSE UNCHANGED <<executed, printed>>
    /\ stack' = <<Frame(CurWindow.Layout, 0)>>
    /\ pc' = "layout"
    /\ UNCHANGED <<capVars, flags, config, home, inTMUX, liveSession, sessionExists, winIdx, ret, exit>>

\* line 240 returns, line 226 moves to the next window
FinishWindow ==
    /\ pc = "layout"
    /\ stack = << >>
    /\ winIdx <= Len(config.Windows)
    /\ winIdx' = winIdx + 1
    /\ pc' = IF winIdx < Len(config.Windows) THEN "window" ELSE "final"
    /\ UNCHANGED <<capVars, flags, config, home, inTMUX, liveSession, sessionExists, stack, ret,
                   executed, printed, exit>>

\* mutant of FinalStep: the TMUX environment variable is not looked at
FinalStep_AlwaysAttach(detached, inClient) ==
    IF detached THEN "none" ELSE "attach-session"

\* lines 245-247: what ends the run
FinalStep(detached, inClient) ==
    IF detached THEN "none"
    ELSE IF inClient THEN "switch-client"
    ELSE "attach-session"

\* lines 258-260: log.Fatalf when the attach fails
AttachFatal(ok) == ~ok

\* line 245: a detached run ends here
FinishDetached ==
    /\ pc = "final"
    /\ FinalStep(flags.detached, inTMUX) = "none"
    /\ pc' = "done"
    /\ exit' = "ok"
    /\ UNCHANGED <<capVars, flags, config, home, inTMUX, liveSession, sessionExists, winIdx, stack,
                   ret, executed, printed>>

\* lines 247-249: inside a client, switch-client; its result is dropped
SwitchClient ==
    /\ pc = "final"
    /\ FinalStep(flags.detached, inTMUX) = "switch-client"
    /\ \E ok \in BOOLEAN : TmuxRun(flags.dryRun, Cmd("switch-client"), ok)
    /\ pc' = "done"
    /\ exit' = "ok"
    /\ UNCHANGED <<capVars, flags, config, home, inTMUX, liveSession, sessionExists, winIdx, stack, ret>>

\* lines 250-263: outside a client, attach-session: run directly (not by
\* TMUX.run) and fatal when it fails, or printed by a dry run
AttachSession ==
    /\ pc = "final"
    /\ FinalStep(flags.detached, inTMUX) = "attach-session"
    /\ IF ~flags.dryRun
       THEN \E ok \in BOOLEAN :
               /\ executed' = Append(executed, [Cmd("attach-session") EXCEPT !.ok = ok])
               /\ printed' = printed
               /\ exit' = IF AttachFatal(ok) THEN "fatal" ELSE "ok"
       ELSE /\ TmuxRun(flags.dryRun, Cmd("attach-session"), TRUE)
            /\ exit' = "ok"
    /\ pc' = "done"
    /\ UNCHANGED <<capVars, flags, config, home, inTMUX, liveSession, sessionExists, winIdx, stack, ret>>

\* the windows of the inputs are named by position
WindowNames == <<"w1", "w2", "w3", "w4">>

RECURSIVE NNodes(_), SumNodes(_)
SumNodes(ns) == IF ns = << >> THEN 0 ELSE NNodes(Head(ns)) + SumNodes(Tail(ns))

NNodes(node) == 1 + SumNodes(node.Columns) + SumNodes(node.Rows)

\* every sequence of at most m layouts with at most n nodes in all; a layout
\* of one node is a pane name or the empty node of a window without layout
RECURSIVE LayoutSeqs(_, _)
LayoutSeqs(n, m) ==
    {<< >>} \cup
    (IF m = 0 \/ n = 0 THEN {}
     ELSE UNION { { <<Named(t, 0)>> \o r : t \in Shapes(j, j = 1),
                                         r \in LayoutSeqs(n - j, m - 1) } : j \in 1..n })

RunConfigs ==
    { SessionConfig(SessionName, sd,
                    [j \in 1..Len(ls) |-> WindowConfig(WindowNames[j], wd, StdPanes, ls[j])]) :
        sd \in DirInputs(<<"~", "/", "s">>),
        ls \in LayoutSeqs(MaxRunNodes, MaxWindows),
        wd \in DirInputs(<<"/", "w">>) }

Init ==
    /\ flags \in [detached : BOOLEAN, recreate : BOOLEAN, dryRun : BOOLEAN]
    /\ config \in RunConfigs
    /\ home = HomeDir
    /\ inTMUX \in BOOLEAN
    /\ liveSession \in BOOLEAN
    /\ pc = "check"
    /\ sessionExists = FALSE
    /\ winIdx = 0
    /\ stack = << >>
    /\ ret = -1
    /\ executed = << >>
    /\ printed = << >>
    /\ exit = "running"
    /\ args = [init |-> FALSE, saveCurrent |-> FALSE]
    /\ live = << >>
    /\ windows = << >>
    /\ lineIdx = 0
    /\ file = NoFile

Next ==
    \/ CheckSession
    \/ KillSession
    \/ CreateSession
    \/ ReuseSession
    \/ StartWindow
    \/ ApplyLayoutStep
    \/ FinishWindow
    \/ FinishDetached
    \/ SwitchClient
    \/ AttachSession

Spec == Init /\ [][Next]_vars

\* ------------------------------------------- the geometry string decoder

\* strings.Index(s, c): the 0-based place of the first c, or -1
IndexOf(s, c) ==
    LET at == {i \in 1..Len(s) : s[i] = c}
    IN  IF at = {} THEN -1 ELSE (CHOOSE i \in at : \A j \in at : i <= j) - 1

DropFirst(s, n) == SubSeq(s, n + 1, Len(s))

HexChars == {"0", "1", "2", "3", "4", "5", "6", "7", "8", "9", "a", "b", "c", "d", "e", "f"}

\* regexp ^[0-9a-f]{4}$
IsChecksum(prefix) == Len(prefix) = 4 /\ \A i \in 1..4 : prefix[i] \in HexChars

\* the number of characters of s from 0-based place i on that are digits
RECURSIVE DigitRun(_, _)
DigitRun(s, i) ==
    IF i < Len(s) /\ IsDigit(s[i + 1]) THEN 1 + DigitRun(s, i + 1) ELSE 0

\* regexp ^\d+x\d+,\d+,\d+ on s: the end of the match (loc[1]), or -1 for
\* no match; the runs of digits are greedy and leave no second way to match
GeometryEnd(s) ==
    LET w == DigitRun(s, 0)
        h == DigitRun(s, w + 1)
        x == DigitRun(s, w + 1 + h + 1)
        y == DigitRun(s, w + 1 + h + 1 + x + 1)
        at(i) == IF i < Len(s) THEN s[i + 1] ELSE ""
    IN  IF /\ w > 0 /\ at(w) = "x"
           /\ h > 0 /\ at(w + 1 + h) = ","
           /\ x > 0 /\ at(w + 1 + h + 1 + x) = ","
           /\ y > 0
        THEN w + 1 + h + 1 + x + 1 + y
        ELSE -1

RECURSIVE DigitsValue(_)
DigitsValue(ds) ==
    IF ds = << >> THEN 0 ELSE 10 * DigitsValue(SubSeq(ds, 1, Len(ds) - 1)) + DigitVal(ds[Len(ds)])

\* strconv.Atoi for numbers that fit an int: an optional sign, then digits
\* and nothing else
Atoi(str) ==
    LET signed == str # << >> /\ str[1] \in {"+", "-"}
        ds     == IF signed THEN Tail(str) ELSE str
    IN  IF ds # << >> /\ \A i \in 1..Len(ds) : IsDigit(ds[i])
        THEN [ok |-> TRUE,
              val |-> IF signed /\ str[1] = "-" THEN 0 - DigitsValue(ds) ELSE DigitsValue(ds)]
        ELSE [ok |-> FALSE, val |-> 0]

\* fmt.Sprintf("%d", n)
Sprintd(n) == IF n < 0 THEN <<"-">> \o Itoa(0 - n) ELSE Itoa(n)

UnknownPane == <<"u", "n", "k", "n", "o", "w", "n">> \o PaneTok

\* lines 596-604: the scan to the bracket that closes the one before cursor
RECURSIVE ScanClose(_, _, _, _, _)
ScanClose(s, cursor, depth, openChar, closeChar) ==
    IF cursor < Len(s) /\ depth > 0
    THEN LET c == s[cursor + 1]
             d == IF c = openChar THEN depth + 1
                  ELSE IF c = closeChar THEN depth - 1
                  ELSE depth
         IN  ScanClose(s, cursor + 1, d, openChar, closeChar)
    ELSE cursor

\* as ChildEnd, but the first closing character ends the node
ChildEnd_FirstClose(s, loc) ==
    LET char == s[loc + 1]
    IN  IF char = "," THEN (loc + 1) + DigitRun(s, loc + 1)
        ELSE IF char = "{" THEN ScanClose(s, loc + 1, 1, "", "}")
        ELSE IF char = "[" THEN ScanClose(s, loc + 1, 1, "", "]")
        ELSE loc

\* lines 573-605: where the node that starts s ends
ChildEnd(s, loc) ==
    LET char == s[loc + 1]
    IN  IF char = "," THEN (loc + 1) + DigitRun(s, loc + 1)
        ELSE IF char = "{" THEN ScanClose(s, loc + 1, 1, "{", "}")
        ELSE IF char = "[" THEN ScanClose(s, loc + 1, 1, "[", "]")
        ELSE loc

\* lines 610-614: the separating comma after a child is skipped
SkipComma(s, cursor) ==
    IF cursor < Len(s) /\ s[cursor + 1] = "," THEN cursor + 1 ELSE cursor

RECURSIVE splitLayoutChildren(_)
splitLayoutChildren(s) ==
    IF Len(s) = 0 THEN << >>
    ELSE LET loc == GeometryEnd(s)
         IN  IF loc = -1 THEN << >>
             ELSE IF loc >= Len(s) THEN <<s>>
             ELSE LET cursor == ChildEnd(s, loc)
                  IN  <<SubSeq(s, 1, cursor)>>
                      \o splitLayoutChildren(DropFirst(s, SkipComma(s, cursor)))

\* lines 478-484
StripChecksum(layout) ==
    LET idx == IndexOf(layout, ",")
    IN  IF idx # -1 /\ IsChecksum(SubSeq(layout, 1, idx))
        THEN DropFirst(layout, idx + 1)
        ELSE layout

ParseErr == [kind |-> "err", node |-> LayoutNode(NoChars, << >>, << >>)]

\* an index out of range: the process panics
ParsePanic == [kind |-> "panic", node |-> LayoutNode(NoChars, << >>, << >>)]

ParseOk(node) == [kind |-> "ok", node |-> node]

\* lines 529-535 and 547-553: the children's results in order; the first
\* child that fails, or panics, ends the loop
RECURSIVE CollectChildren(_, _)
CollectChildren(results, nodes) ==
    IF results = << >> THEN ParseOk(nodes)
    ELSE IF Head(results).kind # "ok" THEN Head(results)
    ELSE CollectChildren(Tail(results), Append(nodes, Head(results).node))

\* lines 506-519: the leaf's name by its pane ID
LeafFor(id, paneMap) ==
    IF id \in DOMAIN paneMap THEN LayoutNode(paneMap[id], << >>, << >>)
    ELSE LayoutNode(UnknownPane \o Sprintd(id), << >>, << >>)

RECURSIVE parseTmuxLayout(_, _)
parseTmuxLayout(layoutArg, paneMap) ==
    LET layout == StripChecksum(layoutArg)
        loc    == GeometryEnd(layout)
    IN  IF loc = -1 THEN ParseErr
        ELSE LET rest == DropFirst(layout, loc)
             IN  IF Len(rest) = 0 THEN ParseErr
                 ELSE LET firstChar == rest[1]
                          content   == Tail(rest)
                          closeChar == IF firstChar = "{" THEN "}" ELSE "]"
                      IN  IF firstChar = ","
                          THEN LET id == Atoi(content)
                               IN  IF ~id.ok THEN ParseErr
                                   ELSE ParseOk(LeafFor(id.val, paneMap))
                          ELSE IF firstChar \in {"{", "["}
                          THEN IF Len(content) = 0 THEN ParsePanic
                               ELSE IF content[Len(content)] # closeChar THEN ParseErr
                               ELSE LET childrenStr ==
                                          splitLayoutChildren(SubSeq(content, 1, Len(content) - 1))
                                        parsed ==
                                          CollectChildren(
                                            [j \in 1..Len(childrenStr) |->
                                                parseTmuxLayout(childrenStr[j], paneMap)], << >>)
                                    IN  IF parsed.kind # "ok" THEN parsed
                                        ELSE IF firstChar = "{"
                                        THEN ParseOk(LayoutNode(NoChars, parsed.node, << >>))
                                        ELSE ParseOk(LayoutNode(NoChars, << >>, parsed.node))
                          ELSE ParseErr

\* ------------------------------------------------- captureCurrentSession

\* line 426: the name a captured pane gets, i its 0-based place in the listing
SynthName(winName, i) == winName \o PaneTok \o Sprintd(i)

\* lines 429-432: a path under the home directory is written with ~; a
\* failed os.UserHomeDir leaves home empty
SimplifyPath(pPath) ==
    LET h == IF home = NoHome THEN NoChars ELSE home
    IN  IF HasPrefix(pPath, h) THEN <<"~">> \o DropFirst(pPath, Len(h)) ELSE pPath

TrimPercent(pIDStr) == IF HasPrefix(pIDStr, <<"%">>) THEN Tail(pIDStr) ELSE pIDStr

\* lines 416-446: the panes of a window from its listing
PanesOf(winName, paneLines) ==
    [i \in 1..Len(paneLines) |->
        PaneConfig(SynthName(winName, i - 1), SimplifyPath(paneLines[i].path),
                   paneLines[i].cmd, << >>)]

\* lines 443-445: pane ID to name; an ID that does not parse counts as 0, and
\* a later line replaces an earlier one of the same ID
RECURSIVE PaneIDMapOf(_, _, _)
PaneIDMapOf(winName, paneLines, i) ==
    IF i > Len(paneLines) THEN << >>
    ELSE LET idVal == Atoi(TrimPercent(paneLines[i].id)).val
         IN  PaneIDMapOf(winName, paneLines, i + 1)
             @@ (idVal :> SynthName(winName, i - 1))
             @@ PaneIDMapOf(winName, SubSeq(paneLines, 1, i - 1), 1)

\* lines 453-457: the fallback, one column per pane in listing order
FlatColumns(panes) ==
    LayoutNode(NoChars, [i \in 1..Len(panes) |-> LeafNode(panes[i].Name)], << >>)

\* lines 449-458: the layout a window is captured with
LayoutOrFallback(parsed, panes) ==
    IF parsed.kind = "err" THEN FlatColumns(panes) ELSE parsed.node

\* lines 104-158: the init subcommand; with --save-current the session to
\* capture is asked for by display-message on a TMUX that is never dry
InitCommand ==
    /\ pc = "init"
    /\ IF args.saveCurrent
       THEN /\ TmuxRun(FALSE, Cmd("display-message"), liveSession)
            /\ IF RunErr(FALSE, liveSession)
               THEN pc' = "done" /\ exit' = "fatal"
               ELSE pc' = "capture" /\ exit' = exit
            /\ config' = config
       ELSE /\ config' = SessionConfig("cwd", NoChars,
                            <<WindowConfig("main", NoChars,
                                <<PaneConfig(<<"b", "a", "s", "h">>, NoChars, "echo Gridlock", << >>)>>,
                                LayoutNode(NoChars, <<LeafNode(<<"b", "a", "s", "h">>)>>, << >>))>>)
            /\ pc' = "write"
            /\ UNCHANGED <<executed, printed, exit>>
    /\ UNCHANGED <<runVars, capVars, flags, home, liveSession>>

\* lines 375-381: has-session; the session may be gone by now
CaptureHasSession ==
    /\ pc = "capture"
    /\ \E ok \in BOOLEAN :
          /\ TmuxRun(FALSE, Cmd("has-session"), ok)
          /\ IF RunErr(FALSE, ok)
             THEN pc' = "done" /\ exit' = "fatal"
             ELSE pc' = "list" /\ exit' = exit
    /\ UNCHANGED <<runVars, capVars, flags, config, home, liveSession>>

\* lines 384-390: list-windows
CaptureListWindows ==
    /\ pc = "list"
    /\ \E ok \in BOOLEAN :
          /\ TmuxRun(FALSE, Cmd("list-windows"), ok)
          /\ IF RunErr(FALSE, ok)
             THEN pc' = "done" /\ exit' = "fatal" /\ lineIdx' = lineIdx
             ELSE pc' = "lines" /\ exit' = exit /\ lineIdx' = 1
    /\ windows' = << >>
    /\ UNCHANGED <<runVars, args, live, file, flags, config, home, liveSession>>

\* lines 397-465: one window: list-panes, the panes and the ID map, then the
\* layout decoded from the geometry string, or the fallback.  The fields of a
\* line are not empty and hold no blank, so SplitN always gives three parts.
CaptureWindow ==
    /\ pc = "lines"
    /\ lineIdx <= Len(live)
    /\ \E ok \in BOOLEAN :
          /\ TmuxRun(FALSE, [Cmd("list-panes") EXCEPT !.win = live[lineIdx].id], ok)
          /\ IF RunErr(FALSE, ok)
             THEN pc' = "done" /\ exit' = "fatal" /\ UNCHANGED <<windows, lineIdx>>
             ELSE LET line   == live[lineIdx]
                      panes  == PanesOf(line.name, line.panes)
                      parsed == parseTmuxLayout(line.layout,
                                                PaneIDMapOf(line.name, line.panes, 1))
                  IN  IF parsed.kind = "panic"
                      THEN pc' = "done" /\ exit' = "panic" /\ UNCHANGED <<windows, lineIdx>>
                      ELSE /\ windows' = Append(windows,
                                  WindowConfig(line.name, NoChars, panes,
                                               LayoutOrFallback(parsed, panes)))
                           /\ lineIdx' = lineIdx + 1
                           /\ UNCHANGED <<pc, exit>>
    /\ UNCHANGED <<runVars, args, live, file, flags, config, home, liveSession>>

\* lines 467-472 and 130-134: the captured configuration
CaptureReturn ==
    /\ pc = "lines"
    /\ lineIdx > Len(live)
    /\ config' = SessionConfig(SessionName, NoChars, windows)
    /\ pc' = "write"
    /\ UNCHANGED <<runVars, capVars, flags, home, liveSession, executed, printed, exit>>

\* lines 160-177: the file is written unless it is already there
WriteConfig ==
    /\ pc = "write"
    /\ \E exists \in BOOLEAN :
          IF exists
          THEN exit' = "fatal" /\ file' = file
          ELSE exit' = "ok" /\ file' = config
    /\ pc' = "done"
    /\ UNCHANGED <<runVars, args, live, windows, lineIdx, flags, config, home, liveSession,
                   executed, printed>>

\* ------------------------------------------------------ the live session

\* the multiplexer's dump of a window's layout: WxH,X,Y,ID for a pane,
\* WxH,X,Y{...} for panes side by side, WxH,X,Y[...] for panes stacked
Geometry(w, h, x, y) ==
    Itoa(w) \o <<"x">> \o Itoa(h) \o <<",">> \o Itoa(x) \o <<",">> \o Itoa(y)

Max(a, b) == IF a > b THEN a ELSE b

RECURSIVE Dump(_, _, _, _, _), DumpSeq(_, _, _, _, _, _)
DumpSeq(ns, across, w, h, x, y) ==
    IF ns = << >> THEN << >>
    ELSE Dump(Head(ns), w, h, x, y)
         \o (IF Tail(ns) = << >> THEN << >>
             ELSE <<",">> \o (IF across THEN DumpSeq(Tail(ns), across, w, h, x + w + 1, y)
                              ELSE DumpSeq(Tail(ns), across, w, h, x, y + h + 1)))

\* a leaf of a live tree carries its pane ID, in digits, as its name
Dump(node, w, h, x, y) ==
    IF node.PaneName # NoChars THEN Geometry(w, h, x, y) \o <<",">> \o node.PaneName
    ELSE IF Len(node.Columns) > 0
    THEN LET n == Len(node.Columns)
         IN  Geometry(w, h, x, y) \o <<"{">>
             \o DumpSeq(node.Columns, TRUE, Max(1, (w - (n - 1)) \div n), h, x, y) \o <<"}">>
    ELSE LET n == Len(node.Rows)
         IN  Geometry(w, h, x, y) \o <<"[">>
             \o DumpSeq(node.Rows, FALSE, w, Max(1, (h - (n - 1)) \div n), x, y) \o <<"]">>

WindowLayout(tree) == Dump(tree, 120, 40, 0, 0)

Checksum == <<"b", "4", "f", "2">>

\* the pane IDs of the live panes, by position
PaneIds == <<0, 12, 7, 105, 3, 20, 41, 8>>

RECURSIVE WithIds(_, _), WithIdsSeq(_, _)
WithIdsSeq(ns, j) ==
    IF ns = << >> THEN << >>
    ELSE <<WithIds(Head(ns), j)>> \o WithIdsSeq(Tail(ns), j + NLeaves(Head(ns)))

\* the tree with its leaves given the pane IDs PaneIds[j+1], PaneIds[j+2], ...
WithIds(node, j) ==
    IF IsLeaf(node) THEN LeafNode(Itoa(PaneIds[(j % Len(PaneIds)) + 1]))
    ELSE IF Len(node.Columns) > 0 THEN LayoutNode(NoChars, WithIdsSeq(node.Columns, j), << >>)
    ELSE LayoutNode(NoChars, << >>, WithIdsSeq(node.Rows, j))

\* the panes of a live tree as list-panes prints them: in layout order
PaneLines(tree) ==
    LET lvs == LeavesOfTree(tree)
    IN  [i \in 1..Len(lvs) |->
            [id |-> <<"%">> \o lvs[i].PaneName,
             path |-> IF i % 2 = 1 THEN HomeDir \o <<"/", "p">> ELSE <<"/", "t">>,
             cmd |-> "zsh"]]

LiveWindow(id, name, tree, layout) ==
    [id |-> id, name |-> name, tree |-> tree, layout |-> layout, panes |-> PaneLines(tree)]

\* a geometry string cut short after n characters
CutAt(str, n) == SubSeq(str, 1, n)

\* a geometry string with a stray character put in after n characters
StrayAt(str, n) == SubSeq(str, 1, n) \o <<"!">> \o DropFirst(str, n)

\* the strings list-windows may print for a tree: its dump with and without
\* the checksum, and for a small tree also every cut and every stray
LayoutStrings(tree) ==
    LET d == WindowLayout(tree)
    IN  {d, Checksum \o <<",">> \o d}
        \cup (IF NNodes(tree) <= MaxBadNodes
              THEN {CutAt(d, n) : n \in 1..(Len(d) - 1)} \cup {StrayAt(d, n) : n \in 0..Len(d)}
              ELSE {})

LiveTrees == { WithIds(t, 0) : t \in UNION { Shapes(n, FALSE) : n \in 1..MaxCapNodes } }

PlainWindow ==
    LET tree == LeafNode(<<"9", "9">>)
    IN  LiveWindow("@0", <<"m">>, tree, WindowLayout(tree))

\* a window one of whose panes is gone when list-panes runs: the geometry
\* string still has pane 8, the listing has panes 41 and 20 only
StaleWindow ==
    LET tree == LayoutNode(NoChars,
                    <<LeafNode(<<"4", "1">>),
                      LayoutNode(NoChars, << >>,
                                 <<LeafNode(<<"8">>), LeafNode(<<"2", "0">>)>>)>>, << >>)
    IN  [LiveWindow("@2", <<"s">>, tree, Dump(tree, 80, 24, 0, 0)) EXCEPT
            !.panes = PaneLines(LayoutNode(NoChars,
                          <<LeafNode(<<"4", "1">>), LeafNode(<<"2", "0">>)>>, << >>))]

\* a window of one pane, 7, when the listing has pane 3 in its place
LoneStaleWindow ==
    [LiveWindow("@3", <<"l">>, LeafNode(<<"7">>), Dump(LeafNode(<<"7">>), 80, 24, 0, 0)) EXCEPT
        !.panes = PaneLines(LeafNode(<<"3">>))]

\* a session of one window, or of that window before or after a plain one
LiveInputs ==
    {<<StaleWindow>>, <<LoneStaleWindow, StaleWindow>>, <<PlainWindow, LoneStaleWindow>>} \cup
    UNION { { <<v>>, <<v, PlainWindow>>, <<PlainWindow, v>> } :
            v \in UNION { { LiveWindow("@1", <<"w">>, t, str) : str \in LayoutStrings(t) } :
                          t \in LiveTrees } }

InitCapture ==
    /\ flags \in [detached : {FALSE}, recreate : {FALSE}, dryRun : BOOLEAN]
    /\ args \in [init : {TRUE}, saveCurrent : BOOLEAN]
    /\ live \in (IF args.saveCurrent THEN LiveInputs ELSE {<< >>})
    /\ liveSession \in (IF args.saveCurrent THEN BOOLEAN ELSE {FALSE})
    /\ config = SessionConfig("", NoChars, << >>)
    /\ home = HomeDir
    /\ inTMUX = liveSession
    /\ pc = "init"
    /\ sessionExists = FALSE
    /\ winIdx = 0
    /\ stack = << >>
    /\ ret = -1
    /\ executed = << >>
    /\ printed = << >>
    /\ exit = "running"
    /\ windows = << >>
    /\ lineIdx = 0
    /\ file = NoFile

NextCapture ==
    \/ InitCommand
    \/ CaptureHasSession
    \/ CaptureListWindows
    \/ CaptureWindow
    \/ CaptureReturn
    \/ WriteConfig

SpecCapture == InitCapture /\ [][NextCapture]_vars

\* =====================================================================
\* Properties of applyLayout (checked under SpecLayout)
\* =====================================================================

\* the commands of the run so far, wherever TMUX.run put them
Issued == IF flags.dryRun THEN printed ELSE executed

\* the split-window and send-keys commands issued for window name w
WindowCmds(w) ==
    SelectSeq(Issued, LAMBDA c : c.win = w /\ c.name \in {"split-window", "send-keys"})

RECURSIVE AllWellFormed(_), WellFormed(_)
AllWellFormed(ns) == ns = << >> \/ (WellFormed(Head(ns)) /\ AllWellFormed(Tail(ns)))

\* exactly one of: a leaf, a columns container, a rows container
WellFormed(node) ==
    \/ node.PaneName # NoChars /\ node.Columns = << >> /\ node.Rows = << >>
    \/ /\ node.PaneName = NoChars
       /\ (node.Columns = << >>) # (node.Rows = << >>)
       /\ AllWellFormed(node.Columns) /\ AllWellFormed(node.Rows)

\* the leaves of a well-formed tree, left to right, depth first
RECURSIVE LeavesOf(_), LeavesOfSeq(_)
LeavesOfSeq(ns) == IF ns = << >> THEN << >> ELSE LeavesOf(Head(ns)) \o LeavesOfSeq(Tail(ns))

LeavesOf(node) ==
    IF node.PaneName # NoChars THEN <<node>>
    ELSE LeavesOfSeq(node.Columns \o node.Rows)

\* A window as the multiplexer numbers it: the panes in index order (index 0
\* first), each with its identity and the keys it was sent; bad is set by a
\* command whose target index does not exist.
FreshWindow == [panes |-> <<[id |-> 0, keys |-> << >>]>>, bad |-> FALSE]

InsertAt(seq, pos, x) == SubSeq(seq, 1, pos) \o <<x>> \o SubSeq(seq, pos + 1, Len(seq))

\* a split of pane k puts the new pane at index k+1 and shifts the later ones
Effect(w, c) ==
    IF c.pane < 0 \/ c.pane >= Len(w.panes) THEN [w EXCEPT !.bad = TRUE]
    ELSE IF c.name = "split-window"
    THEN [w EXCEPT !.panes = InsertAt(@, c.pane + 1, [id |-> Len(@), keys |-> << >>])]
    ELSE [w EXCEPT !.panes[c.pane + 1].keys = Append(@, c.keys)]

RECURSIVE Replay(_, _)
Replay(cmds, w) == IF cmds = << >> THEN w ELSE Replay(Tail(cmds), Effect(w, Head(cmds)))

\* the keys a leaf's pane is due: its definition's command, then its commands
DueKeys(window, leaf) ==
    LET hits == {i \in 1..Len(window.Panes) : PaneMatches(window.Panes[i], leaf.PaneName)}
        p == window.Panes[CHOOSE i \in hits : \A j \in hits : i <= j]
    IN  IF hits = {} THEN << >>
        ELSE IF p.Command = "" THEN p.Commands ELSE <<p.Command>> \o p.Commands

LayoutDone == pc = "layout" /\ stack = << >>

\* C1: compiling a well-formed tree from pane index 0 against a window of one
\* pane, every split-window and send-keys targets an index that exists when
\* it is issued; at the end the window has as many panes as the tree has
\* leaves, and the pane at index k has received exactly the keys of the k-th
\* leaf (left to right, depth first), in order.
C1_IndicesTrackPanes ==
    LET win  == config.Windows[1]
        w    == Replay(WindowCmds(win.Name), FreshWindow)
        lvs  == LeavesOf(win.Layout)
    IN  WellFormed(win.Layout) =>
          /\ ~w.bad
          /\ LayoutDone =>
               /\ Len(w.panes) = Len(lvs)
               /\ \A k \in 1..Len(lvs) : w.panes[k].keys = DueKeys(win, lvs[k])

\* a nested tree whose inner split renumbers a pane split off earlier: the
\* last leaf's pane was created at index 1 and ends at index 2
C1_Witness ==
    LET win == config.Windows[1]
        w   == Replay(WindowCmds(win.Name), FreshWindow)
    IN  /\ LayoutDone
        /\ WellFormed(win.Layout)
        /\ Len(win.Layout.Columns) = 2
        /\ Len(win.Layout.Columns[1].Rows) = 2
        /\ Len(w.panes) = 3
        /\ w.panes[3].id = 1
        /\ w.panes[3].keys # << >>

IsPrefixOf(a, b) == Len(a) <= Len(b) /\ SubSeq(b, 1, Len(a)) = a

\* the pane slots of a tree, left to right: its leaves and its empty nodes
RECURSIVE SlotsOf(_), SlotsOfSeq(_)
SlotsOfSeq(ns) == IF ns = << >> THEN << >> ELSE SlotsOf(Head(ns)) \o SlotsOfSeq(Tail(ns))

SlotsOf(node) ==
    IF node.PaneName # NoChars THEN <<node>>
    ELSE IF Len(node.Columns) > 0 THEN SlotsOfSeq(node.Columns)
    ELSE IF Len(node.Rows) > 0 THEN SlotsOfSeq(node.Rows)
    ELSE <<node>>

\* what C2 observes of a command: a split with its direction and target
\* index, or just that it is a send-keys
Observed(c) ==
    IF c.name = "split-window" THEN <<"split-window", c.flag, c.pane>> ELSE <<"send-keys">>

ObservedSeq(cmds) == [j \in 1..Len(cmds) |-> Observed(cmds[j])]

\* The commands C2 allows for a tree compiled at start index s: a container
\* of n children first issues its n-1 splits, split i at s+i, -h for
\* columns and -v for rows, and only then come the commands of its
\* children, each child starting where the slots of the earlier ones end.
RECURSIVE SplitsFirst(_, _, _), SplitsFirstSeq(_, _, _)
SplitsFirstSeq(ns, s, window) ==
    IF ns = << >> THEN << >>
    ELSE SplitsFirst(Head(ns), s, window)
         \o SplitsFirstSeq(Tail(ns), s + Len(SlotsOf(Head(ns))), window)

SplitsFirst(node, s, window) ==
    IF node.PaneName # NoChars
    THEN [j \in 1..Len(DueKeys(window, node)) |-> <<"send-keys">>]
    ELSE IF Len(node.Columns) > 0
    THEN [j \in 1..(Len(node.Columns) - 1) |-> <<"split-window", "-h", s + j - 1>>]
         \o SplitsFirstSeq(node.Columns, s, window)
    ELSE IF Len(node.Rows) > 0
    THEN [j \in 1..(Len(node.Rows) - 1) |-> <<"split-window", "-v", s + j - 1>>]
         \o SplitsFirstSeq(node.Rows, s, window)
    ELSE << >>

IsLeaves3(node) ==
    /\ Len(node.Columns) = 3
    /\ \A j \in 1..3 : node.Columns[j].PaneName # NoChars

\* C2: a container of n children compiled at start index s issues exactly
\* n-1 split-window commands, the i-th at pane s+i, -h for columns and -v
\* for rows, all of them before any command of a child; the call returns the
\* index after the container's last slot.  For three leaves in columns at
\* index 0: two splits, at .0 then .1, before any leaf command, and 3 is
\* returned.
C2_SplitsBeforeChildren ==
    LET win  == config.Windows[1]
        want == SplitsFirst(win.Layout, 0, win)
        got  == ObservedSeq(WindowCmds(win.Name))
    IN  /\ IsPrefixOf(got, want)
        /\ LayoutDone =>
             /\ got = want
             /\ ret = Len(SlotsOf(win.Layout))
             /\ IsLeaves3(win.Layout) =>
                  /\ SubSeq(got, 1, 2) = << <<"split-window", "-h", 0>>,
                                           <<"split-window", "-h", 1>> >>
                  /\ \A j \in 3..Len(got) : got[j] = <<"send-keys">>
                  /\ ret = 3

\* a rows container nested as the second child, compiled at start index 1,
\* has issued its split after the outer container's and before any send-keys
C2_Witness ==
    LET win == config.Windows[1]
        got == ObservedSeq(WindowCmds(win.Name))
    IN  /\ LayoutDone
        /\ Len(win.Layout.Columns) = 2
        /\ win.Layout.Columns[1].PaneName # NoChars
        /\ Len(win.Layout.Columns[2].Rows) = 2
        /\ Len(got) >= 3
        /\ got[1] = <<"split-window", "-h", 0>>
        /\ got[2] = <<"send-keys">>
        /\ got[3] = <<"split-window", "-v", 1>>
        /\ ret = 3

\* the send-keys commands among cmds, each as <<window, pane index, keys>>
SendsOf(cmds) ==
    LET ks == SelectSeq(cmds, LAMBDA c : c.name = "send-keys")
    IN  [j \in 1..Len(ks) |-> <<ks[j].win, ks[j].pane, ks[j].keys>>]

\* the send-keys due to the slots from number s on, slot by slot
RECURSIVE DueSends(_, _, _)
DueSends(slots, s, window) ==
    IF slots = << >> THEN << >>
    ELSE LET keys == IF Head(slots).PaneName = NoChars THEN << >>
                     ELSE DueKeys(window, Head(slots))
         IN  [j \in 1..Len(keys) |-> <<window.Name, s, keys[j]>>]
             \o DueSends(Tail(slots), s + 1, window)

\* a step that returns from the call of a leaf compiled at start index s
\* returns s+1 and issues nothing
LeafReturnsNext ==
    (stack # << >> /\ IsLeaf(Top.node) /\ Len(stack') < Len(stack)) =>
        /\ ret' = Top.paneTarget + 1
        /\ executed' = executed /\ printed' = printed

\* C3: the send-keys of a run are exactly, leaf by leaf in the order the
\* leaves are compiled, for a leaf at start index s whose name resolves: its
\* pane's command (when non-empty) and then each of its commands in order,
\* each one send-keys at windowTarget.s; for a leaf whose name does not
\* resolve: none, and the leaves after it still get theirs.  Either leaf
\* returns s+1.
C3_LeafDispatch ==
    /\ [](LET win  == config.Windows[1]
              want == DueSends(SlotsOf(win.Layout), 0, win)
              got  == SendsOf(WindowCmds(win.Name))
          IN  /\ IsPrefixOf(got, want)
              /\ LayoutDone => got = want)
    /\ [][LeafReturnsNext]_vars

\* four leaves a, b, z, c: z resolves to no pane and gets nothing, and c,
\* compiled after it at index 3, gets its command and then its commands
C3_Witness ==
    LET win == config.Windows[1]
        got == SendsOf(WindowCmds(win.Name))
    IN  /\ LayoutDone
        /\ Len(win.Layout.Rows) = 4
        /\ win.Layout.Rows[3].PaneName = <<"z">>
        /\ findPane(win, <<"z">>) = 0
        /\ got = << <<"w1", 0, "ca">>, <<"w1", 1, "b1">>, <<"w1", 1, "b2">>,
                    <<"w1", 3, "cc">>, <<"w1", 3, "c1">> >>
        /\ ret = 4

\* =====================================================================
\* Properties of the session driver (checked under Spec)
\* =====================================================================

NamesOf(cmds) == [j \in 1..Len(cmds) |-> cmds[j].name]

Last(seq) == seq[Len(seq)]

\* did a session of the name exist when the run began
SessionWasThere ==
    IF flags.dryRun THEN liveSession
    ELSE executed # << >> /\ executed[1].name = "has-session" /\ executed[1].ok

\* the attach or switch a run is due at its end
DueFinal ==
    IF flags.detached THEN << >>
    ELSE IF inTMUX THEN <<"switch-client">>
    ELSE <<"attach-session">>

\* C4: when a session of the name exists, recreate is not requested and the
\* run is no dry run, the run issues no kill-session, new-session,
\* new-window, split-window or send-keys: the session stays as it is, and
\* after has-session only the final attach or switch (nothing when
\* detached) is run.
C4_ExistingSessionUntouched ==
    (~flags.dryRun /\ ~flags.recreate /\ SessionWasThere) =>
        /\ \A j \in 1..Len(executed) :
              executed[j].name \in {"has-session", "switch-client", "attach-session"}
        /\ printed = << >>
        /\ liveSession
        /\ pc = "done" => NamesOf(executed) = <<"has-session">> \o DueFinal

\* a kept session whose configuration has two windows and a split to make:
\* the run is over after has-session and switch-client
C4_Witness ==
    /\ pc = "done"
    /\ ~flags.dryRun /\ ~flags.recreate /\ SessionWasThere
    /\ Len(config.Windows) = 2
    /\ Len(config.Windows[1].Layout.Columns) = 2
    /\ NamesOf(executed) = <<"has-session", "switch-client">>

\* what C5 and C6 observe of a command
Seen(c) ==
    IF c.name \in {"split-window", "send-keys"} THEN <<c.win>> \o Observed(c)
    ELSE IF c.name = "new-window" THEN <<"new-window", c.win>>
    ELSE <<c.name>>

SeenSeq(cmds) == [j \in 1..Len(cmds) |-> Seen(cmds[j])]

\* the whole window and layout configuration of windows j, j+1, ...:
\* new-window for every window but the first, then the window's layout
RECURSIVE DueWindows(_)
DueWindows(j) ==
    IF j > Len(config.Windows) THEN << >>
    ELSE LET win == config.Windows[j]
             lay == SplitsFirst(win.Layout, 0, win)
         IN  (IF j > 1 THEN << <<"new-window", win.Name>> >> ELSE << >>)
             \o [x \in 1..Len(lay) |-> <<win.Name>> \o lay[x]]
             \o DueWindows(j + 1)

\* kill-session is issued before new-session, and after new-session the
\* whole configuration
KilledThenCreated ==
    \E i, j \in 1..Len(Issued) :
        /\ i < j
        /\ Issued[i].name = "kill-session"
        /\ Issued[j].name = "new-session"
        /\ SeenSeq(SubSeq(Issued, j + 1, Len(Issued)))
             = DueWindows(1) \o [x \in 1..Len(DueFinal) |-> <<DueFinal[x]>>]

\* C5 as stated: when a session of the name exists and recreate is
\* requested, kill-session is issued before new-session, and new-session and
\* the whole configuration are issued whether kill-session succeeds or not.
C5_AsStated ==
    (pc = "done" /\ flags.recreate /\ SessionWasThere) => KilledThenCreated

\* C5, amended: the same for a run that is no dry run.
C5_RecreateKillsFirst ==
    (pc = "done" /\ ~flags.dryRun /\ flags.recreate /\ SessionWasThere) => KilledThenCreated

\* kill-session failed, and the run went on to create the session, a second
\* window and a split
C5_Witness ==
    /\ pc = "done"
    /\ ~flags.dryRun /\ flags.recreate /\ SessionWasThere
    /\ Len(executed) > 3
    /\ executed[2].name = "kill-session" /\ ~executed[2].ok
    /\ executed[3].name = "new-session"
    /\ \E j \in 1..Len(executed) : executed[j].name = "new-window"
    /\ \E j \in 1..Len(executed) : executed[j].name = "split-window"

FinalSteps(cmds) ==
    {j \in 1..Len(cmds) : cmds[j].name \in {"switch-client", "attach-session"}}

\* C6: a run never stops before its end; no attach or switch is issued
\* before the end; at the end a detached run has issued neither, and any
\* other run has issued exactly one, as its last command, after every
\* creation, split and send-keys: switch-client when the TMUX environment
\* variable is non-empty, else attach-session.
C6_OneFinalStep ==
    /\ pc # "done" => (FinalSteps(Issued) = {} /\ ENABLED Next)
    /\ pc = "done" =>
         IF flags.detached THEN FinalSteps(Issued) = {}
         ELSE /\ FinalSteps(Issued) = {Len(Issued)}
              /\ Last(Issued).name = (IF inTMUX THEN "switch-client" ELSE "attach-session")

\* inside a client, a run that created a second window and sent keys ends
\* with switch-client
C6_Witness ==
    /\ pc = "done"
    /\ ~flags.detached /\ inTMUX /\ ~flags.dryRun
    /\ Last(executed).name = "switch-client"
    /\ \E j \in 1..Len(executed) : executed[j].name = "new-window"
    /\ \E j \in 1..Len(executed) : executed[j].name = "send-keys"

\* C7 as stated: a final attach or switch that fails ends the run in a fatal
\* error, in the switch-client branch as in the attach-session branch; a
\* failed kill-session or new-window does not end the run.
C7_FinalFailureIsFatal ==
    /\ (pc = "done" /\ executed # << >>
          /\ Last(executed).name \in {"switch-client", "attach-session"}
          /\ ~Last(executed).ok) => exit = "fatal"
    /\ \A j \in 1..Len(executed) :
          (executed[j].name \in {"kill-session", "new-window"} /\ ~executed[j].ok /\ j = Len(executed))
             => exit = "running"


\* =====================================================================
\* Properties of init and capture (checked under SpecCapture)

\* C8: in dry-run mode no command is executed against the live multiplexer
\* on any path of the program; init --save-current is one of the paths.
C8_DryRunNeverExecutes == flags.dryRun => executed = << >>

\* the grammar of a geometry string, read left to right; a position is the
\* index of the next character, 0 once the text has stopped fitting
RECURSIVE NumEnd(_, _)
NumEnd(s, p) == IF p <= Len(s) /\ IsDigit(s[p]) THEN NumEnd(s, p + 1) ELSE p

Num(s, p) == IF p = 0 THEN 0 ELSE IF NumEnd(s, p) = p THEN 0 ELSE NumEnd(s, p)

Lit(s, p, c) == p # 0 /\ p <= Len(s) /\ s[p] = c

Expect(s, p, c) == IF Lit(s, p, c) THEN p + 1 ELSE 0

\* WxH,X,Y
PrefixEnd(s, p) ==
    Num(s, Expect(s, Num(s, Expect(s, Num(s, Expect(s, Num(s, p), "x")), ",")), ","))

RECURSIVE NodeEnd(_, _), ListEnd(_, _)
\* node ::= WxH,X,Y,ID | WxH,X,Y{list} | WxH,X,Y[list]
NodeEnd(s, p) ==
    LET q == PrefixEnd(s, p)
    IN  IF q = 0 THEN 0
        ELSE IF Lit(s, q, ",") THEN Num(s, q + 1)
        ELSE IF Lit(s, q, "{") THEN Expect(s, ListEnd(s, q + 1), "}")
        ELSE IF Lit(s, q, "[") THEN Expect(s, ListEnd(s, q + 1), "]")
        ELSE 0

\* list ::= node | node,list
ListEnd(s, p) ==
    LET q == NodeEnd(s, p)
    IN  IF q = 0 THEN 0
        ELSE IF Lit(s, q, ",") THEN ListEnd(s, q + 1)
        ELSE q

HasChecksum(str) ==
    Len(str) >= 5 /\ str[5] = "," /\ \A i \in 1..4 : str[i] \in HexChars

\* the whole string is one node, after an optional checksum and comma
WellFormedGeom(str) ==
    LET s == IF HasChecksum(str) THEN SubSeq(str, 6, Len(str)) ELSE str
    IN  NodeEnd(s, 1) = Len(s) + 1

\* the windows captured so far, in the order list-windows gave them
Captured == 1..Len(windows)

\* C9: a window whose geometry string is not well-formed is captured with
\* the flat columns tree of its panes in listing order, capture goes on to
\* the next window, and decoding never crashes the process.
C9_MalformedFallsBack ==
    /\ exit # "panic"
    /\ \A i \in Captured :
          ~WellFormedGeom(live[i].layout)
             => windows[i].Layout = FlatColumns(windows[i].Panes)

RECURSIVE Relabel(_, _, _), RelabelSeq(_, _, _)
RelabelSeq(ns, winName, j) ==
    IF ns = << >> THEN << >>
    ELSE <<Relabel(Head(ns), winName, j)>>
         \o RelabelSeq(Tail(ns), winName, j + NLeaves(Head(ns)))

\* the live tree with each leaf named as the listing names its pane: the
\* j-th leaf from the left is the j-th line of list-panes
Relabel(node, winName, j) ==
    IF node.PaneName # NoChars THEN LayoutNode(SynthName(winName, j), << >>, << >>)
    ELSE LayoutNode(NoChars, RelabelSeq(node.Columns, winName, j),
                    RelabelSeq(node.Rows, winName, j))

IsDumpOf(str, tree) ==
    str \in {WindowLayout(tree), Checksum \o <<",">> \o WindowLayout(tree)}

\* C10: decoding the geometry string of a live tree, with or without the
\* checksum, gives the tree back: same kinds, same nesting, same leaf order,
\* each leaf named by its pane ID.
C10_RoundTrip ==
    /\ \A i \in 1..Len(live) :
          IsDumpOf(live[i].layout, live[i].tree)
             => parseTmuxLayout(live[i].layout,
                                PaneIDMapOf(live[i].name, live[i].panes, 1))
                  = ParseOk(Relabel(live[i].tree, live[i].name, 0))
    /\ \A i \in Captured :
          IsDumpOf(live[i].layout, live[i].tree)
             => windows[i].Layout = Relabel(live[i].tree, live[i].name, 0)

\* a window captured from a checksummed string whose tree has columns inside
\* columns, rows inside those, and a pane ID of more than one digit
C10_Witness ==
    \E i \in Captured :
       /\ HasChecksum(live[i].layout)
       /\ IsDumpOf(live[i].layout, live[i].tree)
       /\ \E c \in 1..Len(live[i].tree.Columns) :
             \E d \in 1..Len(live[i].tree.Columns[c].Columns) :
                Len(live[i].tree.Columns[c].Columns[d].Rows) > 1
       /\ \E l \in 1..Len(live[i].panes) : Len(live[i].panes[l].id) > 2


\* =====================================================================
\* Properties of the working directories (checked under Spec)

\* ~ and ~/rest stand for the home directory
Expanded(path) ==
    IF path = <<"~">> THEN home
    ELSE IF Len(path) >= 2 /\ path[1] = "~" /\ path[2] = "/"
    THEN (IF Len(path) = 2 THEN home ELSE home \o <<"/">> \o SubSeq(path, 3, Len(path)))
    ELSE path

\* the first set one of the pane's, the window's and the session's directory
FirstSet(paneDir, windowDir, sessionDir) ==
    IF paneDir # NoChars THEN paneDir
    ELSE IF windowDir # NoChars THEN windowDir
    ELSE sessionDir

\* the directory a leaf's content is to run in; an empty one leaves the
\* choice to the multiplexer
EffectiveDir(window, leaf) ==
    LET hits == {i \in 1..Len(window.Panes) : PaneMatches(window.Panes[i], leaf.PaneName)}
        p == window.Panes[CHOOSE i \in hits : \A j \in hits : i <= j]
    IN  Expanded(FirstSet(IF hits = {} THEN NoChars ELSE p.WorkingDirectory,
                          window.WorkingDirectory, config.WorkingDirectory))

\* the command that made the first pane of window j: new-session for the
\* first window, the window's new-window for a later one
MadeWindow(j) ==
    SelectSeq(Issued, LAMBDA c : IF j = 1 THEN c.name = "new-session"
                                 ELSE c.name = "new-window" /\ c.win = config.Windows[j].Name)

\* the start directories of a window's panes in index order, after the
\* splits cmds: the pane a split makes at index k+1 starts in the split's -c
RECURSIVE StartDirs(_, _)
StartDirs(cmds, dirs) ==
    IF cmds = << >> THEN dirs
    ELSE LET c == Head(cmds)
         IN  StartDirs(Tail(cmds),
                       IF c.name = "split-window" /\ c.pane >= 0 /\ c.pane < Len(dirs)
                       THEN InsertAt(dirs, c.pane + 1, c.dir) ELSE dirs)

\* the layout of window j has been applied
WindowApplied(j) == winIdx > j

\* the leaves of window j whose pane did not start in the leaf's directory
Misplaced(j) ==
    LET win  == config.Windows[j]
        dirs == StartDirs(WindowCmds(win.Name), <<MadeWindow(j)[1].dir>>)
        lvs  == LeavesOf(win.Layout)
    IN  {k \in 1..Len(lvs) : k > Len(dirs) \/ dirs[k] # EffectiveDir(win, lvs[k])}

\* C11: after a run that creates the session, in every window every leaf's
\* pane was created with the leaf's effective directory (pane's, else
\* window's, else session's) as its start directory, the first leaf's pane,
\* made by new-session or new-window, included.
C11_PanesStartInLeafDir ==
    \A j \in 1..Len(config.Windows) :
        (WindowApplied(j) /\ WellFormed(config.Windows[j].Layout)) => Misplaced(j) = {}


\* the nodes getWorkDirForNode is called on while a tree is applied, in call
\* order: every child but the first of a container, then the same inside
\* each child
RECURSIVE SplitNodes(_), SplitNodesSeq(_)
SplitNodesSeq(ns) ==
    IF ns = << >> THEN << >> ELSE SplitNodes(Head(ns)) \o SplitNodesSeq(Tail(ns))

SplitNodes(node) ==
    IF node.PaneName # NoChars THEN << >>
    ELSE IF Len(node.Columns) > 0 THEN Tail(node.Columns) \o SplitNodesSeq(node.Columns)
    ELSE IF Len(node.Rows) > 0 THEN Tail(node.Rows) \o SplitNodesSeq(node.Rows)
    ELSE << >>

\* the directory of a node by the fallback order pane, window, session: a
\* leaf's is its pane's, a container's is its first child's, and a node
\* without a pane has the window's, else the session's
RECURSIVE FallbackDir(_, _)
FallbackDir(window, node) ==
    IF node.PaneName # NoChars THEN EffectiveDir(window, node)
    ELSE IF Len(node.Columns) > 0 THEN FallbackDir(window, node.Columns[1])
    ELSE IF Len(node.Rows) > 0 THEN FallbackDir(window, node.Rows[1])
    ELSE Expanded(FirstSet(NoChars, window.WorkingDirectory, config.WorkingDirectory))

SplitsOf(w) == SelectSeq(WindowCmds(w), LAMBDA c : c.name = "split-window")

\* C12: the directory getWorkDirForNode gives each split is, home-expanded,
\* the pane's when set, else the window's when set, else the session's, a
\* container taking its first child's; a node that is neither a leaf nor a
\* container follows the same order.
C12_FallbackOrder ==
    LET win    == config.Windows[1]
        splits == SplitsOf(win.Name)
        due    == SplitNodes(win.Layout)
    IN  \A x \in 1..Len(splits) :
           /\ x <= Len(due)
           /\ splits[x].dir = FallbackDir(win, due[x])
           /\ getWorkDirForNode(due[x], win, config.WorkingDirectory) = splits[x].dir


\* =====================================================================
\* Properties of findPane (checked under SpecResolve)

\* the keys the panes of the first window got, in index order, once its
\* layout is applied
KeysGot == Replay(WindowCmds(config.Windows[1].Name), FreshWindow).panes

\* the keys sent for a leaf that resolves to pane p
KeysFor(p) == IF p.Command = "" THEN p.Commands ELSE <<p.Command>> \o p.Commands

\* C13: when a pane of the window has exactly the name a leaf asks for, the
\* leaf resolves to that pane, whatever the order of the panes and whatever
\* other pane's name or -pane-<N> token ends the query.
C13_ExactMatchFirst ==
    LET win == config.Windows[1]
        lvs == LeavesOf(win.Layout)
    IN  LayoutDone =>
          \A k \in 1..Len(lvs) : \A e \in 1..Len(win.Panes) :
              win.Panes[e].Name = lvs[k].PaneName
                 => KeysGot[k].keys = KeysFor(win.Panes[e])

\* a stored name of the form W-pane-N: a window part, the token, digits
IsWindowPaneN(name) ==
    LET idx == LastIndex(name, PaneTok)
    IN  /\ idx > 0
        /\ idx + Len(PaneTok) < Len(name)
        /\ \A x \in (idx + Len(PaneTok) + 1)..Len(name) : IsDigit(name[x])

\* the ending -pane-N of a stored name W-pane-N
PaneNToken(name) == SubSeq(name, LastIndex(name, PaneTok) + 1, Len(name))

\* the query is the stored name followed by more digits (win-pane-20)
LongerNumber(query, name) ==
    /\ Len(query) > Len(name)
    /\ HasPrefix(query, name)
    /\ \A x \in (Len(name) + 1)..Len(query) : IsDigit(query[x])

\* the query ends in the stored name's -pane-N but not in the stored name,
\* so the window part differs (other-pane-2)
OtherWindowPart(query, name) ==
    HasSuffix(query, PaneNToken(name)) /\ ~HasSuffix(query, name)

\* C14: with one stored pane named W-pane-N, a leaf asking for a name that
\* ends with W-pane-N resolves to it; a leaf asking for W-pane-N followed by
\* more digits, or for a name that ends in -pane-N after another window
\* part, resolves to nothing.
C14_SuffixMatch ==
    LET win == config.Windows[1]
        lvs == LeavesOf(win.Layout)
        p   == win.Panes[1]
    IN  (LayoutDone /\ Len(win.Panes) = 1 /\ IsWindowPaneN(p.Name)) =>
          \A k \in 1..Len(lvs) :
              /\ HasSuffix(lvs[k].PaneName, p.Name) => KeysGot[k].keys = KeysFor(p)
              /\ (LongerNumber(lvs[k].PaneName, p.Name) \/ OtherWindowPart(lvs[k].PaneName, p.Name))
                    => KeysGot[k].keys = << >>


\* an earlier pane of the window takes the query: by its name, or by the
\* ending it is compared with
TakenBefore(win, e, query) ==
    \E d \in 1..(e - 1) :
        \/ win.Panes[d].Name = query
        \/ HasSuffix(query, IF LastIndex(win.Panes[d].Name, PaneTok) = -1
                            THEN win.Panes[d].Name
                            ELSE PaneNToken(win.Panes[d].Name))

\* C14, amended: a leaf asking for a name that ends with the -pane-N of a
\* stored pane W-pane-N resolves to that pane whatever comes before -pane-N
\* (other-pane-2 as well as anything-win-pane-2), unless an earlier pane of
\* the window takes the query; a leaf asking for W-pane-N followed by more
\* digits never resolves to it.
C14_TokenMatch ==
    LET win == config.Windows[1]
        lvs == LeavesOf(win.Layout)
    IN  LayoutDone =>
          \A k \in 1..Len(lvs) : \A e \in 1..Len(win.Panes) :
              LET p == win.Panes[e]
                  q == lvs[k].PaneName
              IN  IsWindowPaneN(p.Name) =>
                    /\ (HasSuffix(q, PaneNToken(p.Name)) /\ ~TakenBefore(win, e, q))
                          => KeysGot[k].keys = KeysFor(p)
                    /\ LongerNumber(q, p.Name) => KeysGot[k].keys # KeysFor(p)

\* stored win-pane-2 alone: the leaf other-pane-2 got its keys, the leaf
\* win-pane-20 got none
C14_Witness ==
    LET win == config.Windows[1]
    IN  /\ LayoutDone
        /\ Len(win.Panes) = 1
        /\ win.Panes[1].Name = Win \o PaneTok \o <<"2">>
        /\ Len(win.Layout.Columns) = 2
        /\ win.Layout.Columns[1].PaneName = Other \o PaneTok \o <<"2">>
        /\ win.Layout.Columns[2].PaneName = Win \o PaneTok \o <<"2", "0">>
        /\ KeysGot[1].keys = <<win.Panes[1].Command>>
        /\ KeysGot[2].keys = << >>


\* =====================================================================
\* Properties of the split sizes (checked under SpecLayout)

\* the integer quotient of a by b: the p with p*b <= a < (p+1)*b
Quotient(a, b) == CHOOSE p \in 0..a : p * b <= a /\ a < (p + 1) * b

\* the sizes the splits of a tree are due, in emission order: for a
\* container of n children 100*(n-1)/n, 100*(n-2)/(n-1), ..., 100*1/2, then
\* those of each child
RECURSIVE DueSizes(_), DueSizesSeq(_)
DueSizesSeq(ns) ==
    IF ns = << >> THEN << >> ELSE DueSizes(Head(ns)) \o DueSizesSeq(Tail(ns))

DueSizes(node) ==
    IF node.PaneName # NoChars THEN << >>
    ELSE LET ch == node.Columns \o node.Rows
             n  == Len(ch)
         IN  [x \in 1..(n - 1) |-> Quotient(100 * (n - x), n - x + 1)] \o DueSizesSeq(ch)

SizesAsked == [x \in 1..Len(SplitsOf(config.Windows[1].Name)) |->
                  SplitsOf(config.Windows[1].Name)[x].pct]

\* C15: the sizes the splits of a container of n >= 2 children ask for are,
\* in emission order, the truncated quotients 100*(n-1-i)/(n-i) for
\* i = 0..n-2, each between 50 and 99; four children give 75, 66, 50.
C15_SplitSizes ==
    LET layout == config.Windows[1].Layout
    IN  WellFormed(layout) =>
          /\ IsPrefixOf(SizesAsked, DueSizes(layout))
          /\ LayoutDone => SizesAsked = DueSizes(layout)
          /\ \A x \in 1..Len(SizesAsked) : SizesAsked[x] >= 50 /\ SizesAsked[x] <= 99
          /\ (LayoutDone /\ Len(layout.Columns \o layout.Rows) = 4)
                => SubSeq(SizesAsked, 1, 3) = <<75, 66, 50>>

\* four rows applied: the splits asked for 75, 66 and 50
C15_Witness ==
    /\ LayoutDone
    /\ WellFormed(config.Windows[1].Layout)
    /\ Len(config.Windows[1].Layout.Rows) = 4
    /\ SizesAsked = <<75, 66, 50>>


\* the sizes of a row of panes in index order after the splits cmds: a split
\* of pane k asking for pct gives the new pane, put at index k+1, that many
\* hundredths of pane k's size, rounded down, and leaves pane k the rest
RECURSIVE SizesAfter(_, _)
SizesAfter(cmds, sizes) ==
    IF cmds = << >> THEN sizes
    ELSE LET c   == Head(cmds)
             new == (sizes[c.pane + 1] * c.pct) \div 100
         IN  SizesAfter(Tail(cmds),
                        InsertAt([sizes EXCEPT ![c.pane + 1] = @ - new], c.pane + 1, new))

RECURSIVE SumOf(_)
SumOf(sizes) == IF sizes = << >> THEN 0 ELSE Head(sizes) + SumOf(Tail(sizes))

\* one container whose children are all leaves
IsFlat(node) ==
    /\ node.PaneName = NoChars
    /\ (node.Columns = << >>) # (node.Rows = << >>)
    /\ \A x \in 1..Len(node.Columns \o node.Rows) :
          (node.Columns \o node.Rows)[x].PaneName # NoChars

\* C16: the n-1 splits of a container of n children, applied to a pane of
\* any size S, leave n panes whose sizes sum to S and differ from each other
\* by at most 1.
C16_EvenPartition ==
    LET win == config.Windows[1]
        n   == Len(win.Layout.Columns \o win.Layout.Rows)
    IN  (LayoutDone /\ IsFlat(win.Layout) /\ n >= 2) =>
          \A S \in 1..MaxSize :
              LET sizes == SizesAfter(SplitsOf(win.Name), <<S>>)
              IN  /\ Len(sizes) = n
                  /\ SumOf(sizes) = S
                  /\ \A a, b \in 1..n : sizes[a] - sizes[b] <= 1


\* =====================================================================
\* Properties of the captured layouts (checked under SpecCapture)

\* the geometry string of window i without its checksum
Stripped(i) ==
    IF HasChecksum(live[i].layout) THEN SubSeq(live[i].layout, 6, Len(live[i].layout))
    ELSE live[i].layout

\* the geometry string of window i is the dump of its tree, at either size
IsDumped(i) ==
    \E size \in {<<120, 40>>, <<80, 24>>} :
        Stripped(i) = Dump(live[i].tree, size[1], size[2], 0, 0)

\* the name capture has for pane ID id of window i: the one of its line in
\* the listing, or unknown-pane-<id> when the listing has no such line
NameByListing(i, id) ==
    LET ls == {l \in 1..Len(live[i].panes) : live[i].panes[l].id = <<"%">> \o id}
    IN  IF ls = {} THEN UnknownPane \o id
        ELSE SynthName(live[i].name, (CHOOSE l \in ls : \A m \in ls : m <= l) - 1)

\* the live tree of window i, its leaves named by the listing
RECURSIVE ByListing(_, _)
ByListing(node, i) ==
    IF node.PaneName # NoChars THEN LeafNode(NameByListing(i, node.PaneName))
    ELSE LayoutNode(NoChars,
                    [x \in 1..Len(node.Columns) |-> ByListing(node.Columns[x], i)],
                    [x \in 1..Len(node.Rows) |-> ByListing(node.Rows[x], i)])

\* C17: every layout capture puts in a window is, at every node, exactly one
\* of a leaf with a name and no children, a columns container with a child
\* and no rows, a rows container with a child and no columns; a pane ID that
\* list-panes did not give makes a leaf named unknown-pane-<id>, no error.
C17_CapturedTreesWellFormed ==
    \A i \in Captured :
        /\ WellFormed(windows[i].Layout)
        /\ IsDumped(i) => windows[i].Layout = ByListing(live[i].tree, i)

====
